---- MODULE Spec2Model ----
(***************************************************************************)
(* Model of go/internal/links/isl_satellite_mst.go: the satellite-centric   *)
(* MST link protocol (IslSatelliteCentricMstProtocol).                      *)
(*                                                                          *)
(* Every satellite n owns one protocol instance (n.ISLProtocol); the        *)
(* instance is named by the satellite that holds it.  The fields of the     *)
(* struct are functions over the instances.  Links are objects shared by    *)
(* all instances: their endpoints are fixed, their distance is derived      *)
(* from the satellites' current positions and their established flag is     *)
(* a field of the link.                                                     *)
(***************************************************************************)
EXTENDS Integers, Sequences, FiniteSets, TLC

(***************************************************************************)
(* The universe of the model.                                               *)
(***************************************************************************)
Nodes == {"A", "B", "C", "D"}

\* p.satellite == nil
NoSat == "nil"

\* The link objects of the model: IslLink{Node1, Node2}.
LinkTable ==
    ("AB" :> [Node1 |-> "A", Node2 |-> "B"]) @@
    ("AC" :> [Node1 |-> "A", Node2 |-> "C"]) @@
    ("BC" :> [Node1 |-> "B", Node2 |-> "C"]) @@
    ("CD" :> [Node1 |-> "C", Node2 |-> "D"])

LinkIds == DOMAIN LinkTable

\* A types.ILink that is not an *IslLink, a types.INode that is not a
\* *Satellite.
ForeignLink == "foreign link"
ForeignNode == "foreign node"

\* Positions a satellite can take; 0 is the zero vector (0,0,0).
MaxPos == 1
Positions == 0..MaxPos

\* configs.MaxISLDistance
MaxISLDistance == 100

\* Distance of a link whose endpoints are at the same orbital phase, and
\* when they have drifted apart.
NearDistance == ("AB" :> 10) @@ ("AC" :> 50) @@ ("BC" :> 5) @@ ("CD" :> 5)
FarDistance == ("AB" :> 150) @@ ("AC" :> 10) @@ ("BC" :> 50) @@ ("CD" :> 150)

\* Bounds on the link lists of a run.
MaxLinks == 3
MaxPeerLinks == 1

\* Bounds on the calls of a run: AddLink calls in all, the length up to
\* which ConnectLink extends an established set, the calls of a thread, and
\* the length of the established sets that link edits start from.
MaxAdds == 2
MaxConnected == 1
MaxCalls == 2
MaxEstablished == 2

VARIABLES
    links,        \* p.links: candidate links, in insertion order
    established,  \* p.established
    satellite,    \* p.satellite: the mounted satellite, or NoSat
    satellites,   \* p.satellites: endpoints seen at the last recomputation
    position,     \* p.position: position at the last recomputation
    visited,      \* p.visited
    pq,           \* p.pq
    mu,           \* p.mu: TRUE while a caller holds the lock
    readyCh,      \* len(p.readyCh): 0 or 1 pending notification
    linkEst,      \* IslLink.established, per link object
    pos,          \* Satellite.PositionVector(), per satellite
    last,         \* the UpdateLinks call that just returned, and its result
    prev,         \* what UpdateLinks returned last, while its owner stays put
    calls         \* per thread: the call it is in and where in it

vars == << links, established, satellite, satellites, position, visited, pq,
           mu, readyCh, linkEst, pos, last, prev, calls >>

(***************************************************************************)
(* Sequences helpers.                                                       *)
(***************************************************************************)
Range(s) == { s[i] : i \in DOMAIN s }

SeqsUpTo(S, n) == UNION { [1..k -> S] : k \in 0..n }

(***************************************************************************)
(* IslLink (linktypes, not in the source tree): Distance() is derived from  *)
(* the live positions of the two endpoints on every access.                 *)
(***************************************************************************)
Node1(l) == LinkTable[l].Node1
Node2(l) == LinkTable[l].Node2

DistanceAt(l, ps) ==
    IF ps[Node1(l)] = ps[Node2(l)] THEN NearDistance[l] ELSE FarDistance[l]

Distance(l) == DistanceAt(l, pos)

(***************************************************************************)
(* LinkPriorityQueue (linktypes, not in the source tree): ascending         *)
(* priority, first enqueued first dequeued among equal priorities.          *)
(***************************************************************************)
PQEmpty == << >>

PQLen(q) == Len(q)

PQEnqueue(q, item, priority) ==
    LET k == Cardinality({ i \in DOMAIN q : q[i].priority <= priority })
    IN  SubSeq(q, 1, k) \o << [item |-> item, priority |-> priority] >>
            \o SubSeq(q, k + 1, Len(q))

PQPeek(q) == q[1].item

PQDequeue(q) == Tail(q)

(***************************************************************************)
(* UpdateLinks, cache miss: the reachable universe, the seeded queue and    *)
(* the greedy loop.  The loop state is [mst, visited, pq].                  *)
(***************************************************************************)
\* SatMap that misses the candidate link added last.
SatMapStale(ls) ==
    { Node1(ls[i]) : i \in 1..(Len(ls) - 1) } \cup
    { Node2(ls[i]) : i \in 1..(Len(ls) - 1) }

\* satMap: the distinct endpoints of the candidate links.
SatMap(ls) == { Node1(ls[i]) : i \in DOMAIN ls } \cup { Node2(ls[i]) : i \in DOMAIN ls }

InRange(l) == Distance(l) <= MaxISLDistance

BothVisited(l, vis) == Node1(l) \in vis /\ Node2(l) \in vis

\* for _, l := range p.links { if in range { p.pq.Enqueue(l, l.Distance()) } }
RECURSIVE SeedQueue(_, _)
SeedQueue(q, ls) ==
    IF ls = << >> THEN q
    ELSE SeedQueue(IF InRange(Head(ls))
                   THEN PQEnqueue(q, Head(ls), Distance(Head(ls)))
                   ELSE q,
                   Tail(ls))

\* EnqueueFrontier without the range check of line 169.
RECURSIVE EnqueueFrontierNoRange(_, _, _)
EnqueueFrontierNoRange(q, ls, vis) ==
    IF ls = << >> THEN q
    ELSE EnqueueFrontierNoRange(IF ~BothVisited(Head(ls), vis)
                                THEN PQEnqueue(q, Head(ls), Distance(Head(ls)))
                                ELSE q,
                                Tail(ls), vis)

\* for _, l := range newSat.ISLProtocol.Links() { ... p.pq.Enqueue(isl, ...) }
RECURSIVE EnqueueFrontier(_, _, _)
EnqueueFrontier(q, ls, vis) ==
    IF ls = << >> THEN q
    ELSE EnqueueFrontier(IF InRange(Head(ls)) /\ ~BothVisited(Head(ls), vis)
                         THEN PQEnqueue(q, Head(ls), Distance(Head(ls)))
                         ELSE q,
                         Tail(ls), vis)

\* LoopCond without the size target: the loop runs until the queue is empty.
LoopCondNoTarget(st, sats) == PQLen(st.pq) > 0

\* for len(mst) < len(p.satellites)-1 && p.pq.Len() > 0
LoopCond(st, sats) ==
    Len(st.mst) < Cardinality(sats) - 1 /\ PQLen(st.pq) > 0

\* if p.visited[s1] && p.visited[s2] { continue }
RECURSIVE SkipClosing(_, _)
SkipClosing(st, sats) ==
    IF LoopCond(st, sats) /\ BothVisited(PQPeek(st.pq), st.visited)
    THEN SkipClosing([st EXCEPT !.pq = PQDequeue(@)], sats)
    ELSE st

\* if !p.visited[s1] { newSat = s1 } else { newSat = s2 }
NewSat(l, vis) == IF Node1(l) \notin vis THEN Node1(l) ELSE Node2(l)

\* Expand marking the other endpoint of the link visited, not newSat.
ExpandMarksOther(st, nl) ==
    LET link == PQPeek(st.pq)
        newSat == NewSat(link, st.visited)
    IN  [ mst     |-> Append(st.mst, link),
          visited |-> st.visited \cup ({Node1(link), Node2(link)} \ {newSat}),
          pq      |-> EnqueueFrontier(PQDequeue(st.pq), nl, st.visited) ]

\* One pass of the loop body for a dequeued link that is kept; nl is what
\* newSat.ISLProtocol.Links() returned.
Expand(st, nl) ==
    LET link == PQPeek(st.pq)
        newSat == NewSat(link, st.visited)
    IN  [ mst     |-> Append(st.mst, link),
          visited |-> st.visited \cup {newSat},
          pq      |-> EnqueueFrontier(PQDequeue(st.pq), nl, st.visited) ]

\* newSat.ISLProtocol.Links() takes the lock of newSat's instance: the call
\* never returns when that lock is held for good (by this very call, when
\* the instance is mounted on another satellite than the one holding it).
LinksBlocks(p, n) == n = p \/ mu[n]

\* The loop, run to its end, or up to the Links() call that never returns.
RECURSIVE PrimLoop(_, _, _)
PrimLoop(p, st, sats) ==
    LET s1 == SkipClosing(st, sats)
    IN  IF ~LoopCond(s1, sats)
        THEN [st |-> s1, blocked |-> FALSE]
        ELSE LET newSat == NewSat(PQPeek(s1.pq), s1.visited)
             IN  IF LinksBlocks(p, newSat)
                 THEN [st |-> [s1 EXCEPT !.pq = PQDequeue(@)], blocked |-> TRUE]
                 ELSE PrimLoop(p, Expand(s1, links[newSat]), sats)

\* The loop state when the loop starts.
LoopStart(p) ==
    [ mst     |-> << >>,
      visited |-> {satellite[p]},
      pq      |-> SeedQueue(PQEmpty, links[p]) ]

Recompute(p) == PrimLoop(p, LoopStart(p), SatMap(links[p]))

\* Reconcile without the second loop (lines 188 to 192): no flag is cleared.
ReconcileKeepsFlags(flags, mst, old) ==
    [ l \in LinkIds |-> IF l \in Range(mst) THEN TRUE ELSE flags[l] ]

\* l.SetEstablished(true) for the tree, SetEstablished(false) for what was
\* established and is not in the tree.
Reconcile(flags, mst, old) ==
    [ l \in LinkIds |->
        IF l \in Range(mst) THEN TRUE
        ELSE IF l \in Range(old) THEN FALSE
        ELSE flags[l] ]

(***************************************************************************)
(* readyCh, a channel of capacity ReadyChCap, as the number of pending      *)
(* notifications.                                                           *)
(***************************************************************************)
ReadyChCap == 1

\* A send that counts a notification even when one is pending.
SignalBlind(n) == n + 1

\* select { case p.readyCh <- struct{}{}: default: }
Signal(n) == IF n < ReadyChCap THEN n + 1 ELSE n

\* select { case <-p.readyCh: default: }
Drain(n) == IF n > 0 THEN n - 1 ELSE n

(***************************************************************************)
(* What a call returned.                                                    *)
(* last is the UpdateLinks call that returned in the latest step: its       *)
(* receiver, how it ended, the links it returned and the links it dropped;  *)
(* NoCall when the latest step was anything else.                           *)
(***************************************************************************)
Returned(op, p, outcome, result) ==
    [op |-> op, inst |-> p, outcome |-> outcome, result |-> result,
     dropped |-> {}]

\* A recomputation returned mst; dropped are the links of the established
\* set it replaced (old) that are not in mst.
Recomputation(p, mst, old) ==
    [Returned("UpdateLinks", p, "recomputed", mst) EXCEPT
        !.dropped = Range(old) \ Range(mst)]

NoCall == Returned("none", NoSat, "none", << >>)

\* prev is what the latest UpdateLinks on a mounted instance returned, kept
\* for as long as the owner of that instance has not moved; edited tells
\* whether ConnectLink or DisconnectLink was called on the instance since,
\* again whether that UpdateLinks itself followed such a kept, unedited return.
NoPrev == [inst |-> NoSat, result |-> << >>, edited |-> FALSE, again |-> FALSE]

Kept(p, result) ==
    [inst |-> p, result |-> result, edited |-> FALSE,
     again |-> (prev.inst = p /\ ~prev.edited)]

Edited(p) == IF prev.inst = p THEN [prev EXCEPT !.edited = TRUE] ELSE prev

(***************************************************************************)
(* Callers.  A thread is in at most one call: op on the instance inst with  *)
(* argument arg, at the step pc; mst and link are the locals of             *)
(* UpdateLinks, left the number of calls the thread may still make.         *)
(***************************************************************************)
Threads == {"t1", "t2"}

Idle(n) ==
    [op |-> "none", inst |-> NoSat, arg |-> NoSat, pc |-> "idle",
     mst |-> << >>, link |-> "none", left |-> n]

(***************************************************************************)
(* The state after NewIslSatelliteCentricMstProtocol(), for every           *)
(* satellite's instance.                                                    *)
(***************************************************************************)
Constructed ==
    /\ links = [p \in Nodes |-> << >>]
    /\ established = [p \in Nodes |-> << >>]
    /\ satellite = [p \in Nodes |-> NoSat]
    /\ satellites = [p \in Nodes |-> {}]
    /\ position = [p \in Nodes |-> 0]
    /\ visited = [p \in Nodes |-> {}]
    /\ pq = [p \in Nodes |-> PQEmpty]
    /\ mu = [p \in Nodes |-> FALSE]
    /\ readyCh = [p \in Nodes |-> 0]
    /\ linkEst = [l \in LinkIds |-> FALSE]
    /\ last = NoCall
    /\ prev = NoPrev
    /\ calls = [t \in Threads |-> Idle(MaxCalls)]

(***************************************************************************)
(* UpdateLinks.  A call takes p.mu first; it runs when the lock is free.    *)
(***************************************************************************)
\* UpdateLinksNotMounted resetting the established set before the error.
UpdateLinksNotMountedClears(p) ==
    /\ ~mu[p]
    /\ satellite[p] = NoSat
    /\ established' = [established EXCEPT ![p] = << >>]
    /\ last' = Returned("UpdateLinks", p, "not mounted", << >>)
    /\ UNCHANGED << links, satellite, satellites, position,
                    visited, pq, mu, readyCh, linkEst, pos, prev, calls >>

UpdateLinksNotMounted(p) ==
    /\ ~mu[p]
    /\ satellite[p] = NoSat
    /\ last' = Returned("UpdateLinks", p, "not mounted", << >>)
    /\ UNCHANGED << links, established, satellite, satellites, position,
                    visited, pq, mu, readyCh, linkEst, pos, prev, calls >>

\* UpdateLinksCached without the early return of line 114: the unchanged
\* position is noticed and the pass runs all the same.
UpdateLinksCachedRecomputes(p) ==
    /\ ~mu[p]
    /\ satellite[p] # NoSat
    /\ position[p] = pos[satellite[p]]
    /\ LET r == Recompute(p)
           mst == r.st.mst
       IN  /\ satellites' = [satellites EXCEPT ![p] = SatMap(links[p])]
           /\ visited' = [visited EXCEPT ![p] = r.st.visited]
           /\ pq' = [pq EXCEPT ![p] = r.st.pq]
           /\ IF r.blocked
              THEN /\ mu' = [mu EXCEPT ![p] = TRUE]
                   /\ last' = Returned("UpdateLinks", p, "blocked", << >>)
                   /\ UNCHANGED << established, linkEst, readyCh, prev >>
              ELSE /\ linkEst' = Reconcile(linkEst, mst, established[p])
                   /\ established' = [established EXCEPT ![p] = mst]
                   /\ readyCh' = [readyCh EXCEPT ![p] = Signal(@)]
                   /\ last' = Recomputation(p, mst, established[p])
                   /\ prev' = Kept(p, mst)
                   /\ UNCHANGED mu
    /\ UNCHANGED << links, satellite, position, pos, calls >>

UpdateLinksCached(p) ==
    /\ ~mu[p]
    /\ satellite[p] # NoSat
    /\ position[p] = pos[satellite[p]]
    /\ readyCh' = [readyCh EXCEPT ![p] = Drain(@)]
    /\ last' = Returned("UpdateLinks", p, "cached", established[p])
    /\ prev' = Kept(p, established[p])
    /\ UNCHANGED << links, established, satellite, satellites, position,
                    visited, pq, mu, linkEst, pos, calls >>

UpdateLinksRecompute(p) ==
    /\ ~mu[p]
    /\ satellite[p] # NoSat
    /\ position[p] # pos[satellite[p]]
    /\ LET r == Recompute(p)
           mst == r.st.mst
       IN  /\ position' = [position EXCEPT ![p] = pos[satellite[p]]]
           /\ satellites' = [satellites EXCEPT ![p] = SatMap(links[p])]
           /\ visited' = [visited EXCEPT ![p] = r.st.visited]
           /\ pq' = [pq EXCEPT ![p] = r.st.pq]
           /\ IF r.blocked
              THEN /\ mu' = [mu EXCEPT ![p] = TRUE]
                   /\ last' = Returned("UpdateLinks", p, "blocked", << >>)
                   /\ UNCHANGED << established, linkEst, readyCh, prev >>
              ELSE /\ linkEst' = Reconcile(linkEst, mst, established[p])
                   /\ established' = [established EXCEPT ![p] = mst]
                   /\ readyCh' = [readyCh EXCEPT ![p] = Signal(@)]
                   /\ last' = Recomputation(p, mst, established[p])
                   /\ prev' = Kept(p, mst)
                   /\ UNCHANGED mu
    /\ UNCHANGED << links, satellite, pos, calls >>

UpdateLinks(p) ==
    \/ UpdateLinksNotMounted(p)
    \/ UpdateLinksCached(p)
    \/ UpdateLinksRecompute(p)

(***************************************************************************)
(* Mount: no lock is taken.                                                 *)
(***************************************************************************)
Mount(p, sat) ==
    /\ satellite' = IF satellite[p] = NoSat /\ sat \in Nodes
                    THEN [satellite EXCEPT ![p] = sat]
                    ELSE satellite
    /\ last' = NoCall
    /\ UNCHANGED << links, established, satellites, position, visited, pq,
                    mu, readyCh, linkEst, pos, prev, calls >>

(***************************************************************************)
(* AddLink, ConnectLink, DisconnectLink: a foreign link is ignored without  *)
(* taking the lock.                                                         *)
(***************************************************************************)
AddLink(p, link) ==
    /\ link \in LinkIds => ~mu[p]
    /\ links' = IF link \in LinkIds
                THEN [links EXCEPT ![p] = Append(@, link)]
                ELSE links
    /\ last' = NoCall
    /\ UNCHANGED << established, satellite, satellites, position, visited, pq,
                    mu, readyCh, linkEst, pos, prev, calls >>

ConnectLink(p, link) ==
    /\ link \in LinkIds => ~mu[p]
    /\ established' = IF link \in LinkIds
                      THEN [established EXCEPT ![p] = Append(@, link)]
                      ELSE established
    /\ last' = NoCall
    /\ prev' = Edited(p)
    /\ UNCHANGED << links, satellite, satellites, position, visited, pq,
                    mu, readyCh, linkEst, pos, calls >>

\* The loop of lines 85 to 90 without its break: every identical entry goes.
RemoveAll(es, link) == SelectSeq(es, LAMBDA x : x # link)

\* The slice without its last entry identical to link.
RemoveLast(es, link) ==
    IF link \notin Range(es) THEN es
    ELSE LET i == CHOOSE k \in DOMAIN es :
                    es[k] = link /\ \A j \in (k + 1)..Len(es) : es[j] # link
         IN  SubSeq(es, 1, i - 1) \o SubSeq(es, i + 1, Len(es))

\* The slice without its first entry identical to link.
RemoveFirst(es, link) ==
    IF link \notin Range(es) THEN es
    ELSE LET i == CHOOSE k \in DOMAIN es :
                    es[k] = link /\ \A j \in 1..(k - 1) : es[j] # link
         IN  SubSeq(es, 1, i - 1) \o SubSeq(es, i + 1, Len(es))

DisconnectLink(p, link) ==
    /\ link \in LinkIds => ~mu[p]
    /\ established' = IF link \in LinkIds
                      THEN [established EXCEPT ![p] = RemoveFirst(@, link)]
                      ELSE established
    /\ last' = NoCall
    /\ prev' = Edited(p)
    /\ UNCHANGED << links, satellite, satellites, position, visited, pq,
                    mu, readyCh, linkEst, pos, calls >>

(***************************************************************************)
(* The environment: a satellite moves.                                      *)
(***************************************************************************)
Move(n) ==
    /\ \E v \in Positions \ {pos[n]} : pos' = [pos EXCEPT ![n] = v]
    /\ last' = NoCall
    /\ prev' = IF prev.inst # NoSat /\ satellite[prev.inst] = n THEN NoPrev ELSE prev
    /\ UNCHANGED << links, established, satellite, satellites, position,
                    visited, pq, mu, readyCh, linkEst, calls >>

(***************************************************************************)
(* The protocol driven by its callers, one call at a time.                  *)
(***************************************************************************)
Init ==
    /\ Constructed
    /\ pos = [n \in Nodes |-> 0]

\* The instances that have been mounted or hold established links.  One
\* instance is driven at a time; the others take AddLink calls only and
\* serve as the neighbours whose link sets a pass pulls.
Driven == { p \in Nodes : satellite[p] # NoSat \/ established[p] # << >> }

TotalLinks == Len(links["A"]) + Len(links["B"]) + Len(links["C"]) + Len(links["D"])

\* The satellites a caller mounts p on: the one that holds p, and another.
Partner == ("A" :> "B") @@ ("B" :> "A") @@ ("C" :> "D") @@ ("D" :> "C")

MountArgs(p) == {p, Partner[p], ForeignNode}

Next ==
    \/ \E p \in Nodes : \E sat \in MountArgs(p) :
          /\ Driven \subseteq {p}
          /\ Mount(p, sat)
    \/ \E p \in Nodes, link \in LinkIds \cup {ForeignLink} :
          /\ TotalLinks < MaxAdds
          /\ AddLink(p, link)
    \/ \E p \in Nodes, link \in LinkIds \cup {ForeignLink} :
          /\ Driven \subseteq {p}
          /\ Len(established[p]) < MaxConnected
          /\ ConnectLink(p, link)
    \/ \E p \in Nodes, link \in LinkIds \cup {ForeignLink} :
          /\ Driven \subseteq {p}
          /\ DisconnectLink(p, link)
    \/ \E p \in Nodes :
          /\ Driven \subseteq {p}
          /\ UpdateLinks(p)
    \/ \E p \in Nodes :
          /\ satellite[p] # NoSat
          /\ Move(satellite[p])

Spec == Init /\ [][Next]_vars

(***************************************************************************)
(* The tree construction on its own: the instance of one satellite is       *)
(* mounted and holds up to MaxLinks candidate links, one other instance     *)
(* holds up to MaxPeerLinks, and the satellites are anywhere.               *)
(***************************************************************************)
InitMst ==
    /\ \E o \in Nodes, q \in Nodes,
          ls \in SeqsUpTo(LinkIds, MaxLinks), ql \in SeqsUpTo(LinkIds, MaxPeerLinks) :
            /\ q # o
            /\ links = [p \in Nodes |-> IF p = o THEN ls ELSE IF p = q THEN ql ELSE << >>]
            /\ satellite = [p \in Nodes |-> IF p = o THEN o ELSE NoSat]
            /\ pos \in { ps \in [Nodes -> Positions] : ps[o] # 0 }
    /\ established = [p \in Nodes |-> << >>]
    /\ satellites = [p \in Nodes |-> {}]
    /\ position = [p \in Nodes |-> 0]
    /\ visited = [p \in Nodes |-> {}]
    /\ pq = [p \in Nodes |-> PQEmpty]
    /\ mu = [p \in Nodes |-> FALSE]
    /\ readyCh = [p \in Nodes |-> 0]
    /\ linkEst = [l \in LinkIds |-> FALSE]
    /\ last = NoCall
    /\ prev = NoPrev
    /\ calls = [t \in Threads |-> Idle(MaxCalls)]

NextMst == \E p \in Nodes : UpdateLinksCached(p) \/ UpdateLinksRecompute(p)

SpecMst == InitMst /\ [][NextMst]_vars

(***************************************************************************)
(* The protocol called by concurrent threads, one step of a call at a time. *)
(* sync.Mutex is not reentrant and belongs to no thread: the thread inside  *)
(* an UpdateLinks of an instance is the one that locked its mu.             *)
(***************************************************************************)
ConcNodes == {"A", "B"}

Goto(t, pc) == [calls EXCEPT ![t].pc = pc]

Return(t) == [calls EXCEPT ![t] = Idle(calls[t].left)]

\* The thread is between p.mu.Lock() and the deferred p.mu.Unlock().
Holds(t, p) ==
    calls[t].inst = p /\ calls[t].pc \in {"ul_locked", "ul_loop", "ul_links"}

\* A thread calls Mount(sat) on the instance p.
CallMount(t, p, sat) ==
    /\ calls[t].pc = "idle" /\ calls[t].left > 0
    /\ calls' = [calls EXCEPT ![t] =
                    [op |-> "Mount", inst |-> p, arg |-> sat,
                     pc |-> "mount_check", mst |-> << >>, link |-> "none",
                     left |-> calls[t].left - 1]]
    /\ UNCHANGED << links, established, satellite, satellites, position,
                    visited, pq, mu, readyCh, linkEst, pos, last, prev >>

\* if p.satellite == nil: the field is read, no lock held.
MountCheck(t) ==
    /\ calls[t].pc = "mount_check"
    /\ calls' = IF satellite[calls[t].inst] = NoSat /\ calls[t].arg \in Nodes
                THEN Goto(t, "mount_set")
                ELSE Return(t)
    /\ UNCHANGED << links, established, satellite, satellites, position,
                    visited, pq, mu, readyCh, linkEst, pos, last, prev >>

\* p.satellite = s: the field is written, no lock held.
MountSet(t) ==
    /\ calls[t].pc = "mount_set"
    /\ satellite' = [satellite EXCEPT ![calls[t].inst] = calls[t].arg]
    /\ calls' = Return(t)
    /\ UNCHANGED << links, established, satellites, position, visited, pq,
                    mu, readyCh, linkEst, pos, last, prev >>

\* A thread calls UpdateLinks() on the instance p.
CallUpdateLinks(t, p) ==
    /\ calls[t].pc = "idle" /\ calls[t].left > 0
    /\ calls' = [calls EXCEPT ![t] =
                    [op |-> "UpdateLinks", inst |-> p, arg |-> NoSat,
                     pc |-> "ul_lock", mst |-> << >>, link |-> "none",
                     left |-> calls[t].left - 1]]
    /\ UNCHANGED << links, established, satellite, satellites, position,
                    visited, pq, mu, readyCh, linkEst, pos, last, prev >>

\* p.mu.Lock()
UpdateLinksLock(t) ==
    /\ calls[t].pc = "ul_lock"
    /\ ~mu[calls[t].inst]
    /\ mu' = [mu EXCEPT ![calls[t].inst] = TRUE]
    /\ calls' = Goto(t, "ul_locked")
    /\ UNCHANGED << links, established, satellite, satellites, position,
                    visited, pq, readyCh, linkEst, pos, last, prev >>

\* if p.satellite == nil { return nil, error }
UpdateLinksFails(t) ==
    LET p == calls[t].inst
    IN  /\ calls[t].pc = "ul_locked"
        /\ satellite[p] = NoSat
        /\ mu' = [mu EXCEPT ![p] = FALSE]
        /\ calls' = Return(t)
        /\ UNCHANGED << links, established, satellite, satellites, position,
                        visited, pq, readyCh, linkEst, pos, last, prev >>

\* The position is the cached one: drain readyCh, return the established set.
UpdateLinksHit(t) ==
    LET p == calls[t].inst
    IN  /\ calls[t].pc = "ul_locked"
        /\ satellite[p] # NoSat
        /\ position[p] = pos[satellite[p]]
        /\ readyCh' = [readyCh EXCEPT ![p] = Drain(@)]
        /\ mu' = [mu EXCEPT ![p] = FALSE]
        /\ calls' = Return(t)
        /\ UNCHANGED << links, established, satellite, satellites, position,
                        visited, pq, linkEst, pos, last, prev >>

\* The position changed: lines 116 to 145, up to the loop.
UpdateLinksMiss(t) ==
    LET p == calls[t].inst
        st == LoopStart(p)
    IN  /\ calls[t].pc = "ul_locked"
        /\ satellite[p] # NoSat
        /\ position[p] # pos[satellite[p]]
        /\ position' = [position EXCEPT ![p] = pos[satellite[p]]]
        /\ satellites' = [satellites EXCEPT ![p] = SatMap(links[p])]
        /\ visited' = [visited EXCEPT ![p] = st.visited]
        /\ pq' = [pq EXCEPT ![p] = st.pq]
        /\ calls' = [calls EXCEPT ![t].pc = "ul_loop", ![t].mst = st.mst]
        /\ UNCHANGED << links, established, satellite, mu, readyCh, linkEst,
                        pos, last, prev >>

\* The loop state of the call of t.
LoopState(t) ==
    [ mst     |-> calls[t].mst,
      visited |-> visited[calls[t].inst],
      pq      |-> pq[calls[t].inst] ]

\* The loop dequeues up to a link to keep, and goes for the links of newSat.
UpdateLinksDequeue(t) ==
    LET p == calls[t].inst
        s1 == SkipClosing(LoopState(t), satellites[p])
    IN  /\ calls[t].pc = "ul_loop"
        /\ LoopCond(s1, satellites[p])
        /\ pq' = [pq EXCEPT ![p] = PQDequeue(s1.pq)]
        /\ calls' = [calls EXCEPT ![t].pc = "ul_links",
                                  ![t].link = PQPeek(s1.pq)]
        /\ UNCHANGED << links, established, satellite, satellites, position,
                        visited, mu, readyCh, linkEst, pos, last, prev >>

\* The instance whose Links() the call of t is in.
LinksOf(t) == NewSat(calls[t].link, visited[calls[t].inst])

\* newSat.ISLProtocol.Links() locks, copies and unlocks; then the rest of
\* the loop body.
UpdateLinksPull(t) ==
    LET p == calls[t].inst
        n == LinksOf(t)
        q == << [item |-> calls[t].link, priority |-> Distance(calls[t].link)] >>
        s1 == Expand([LoopState(t) EXCEPT !.pq = q \o @], links[n])
    IN  /\ calls[t].pc = "ul_links"
        /\ ~mu[n]
        /\ visited' = [visited EXCEPT ![p] = s1.visited]
        /\ pq' = [pq EXCEPT ![p] = s1.pq]
        /\ calls' = [calls EXCEPT ![t].pc = "ul_loop", ![t].mst = s1.mst,
                                  ![t].link = "none"]
        /\ UNCHANGED << links, established, satellite, satellites, position,
                        mu, readyCh, linkEst, pos, last, prev >>

\* The loop is over: lines 183 to 206 and the deferred Unlock.
UpdateLinksFinish(t) ==
    LET p == calls[t].inst
        s1 == SkipClosing(LoopState(t), satellites[p])
    IN  /\ calls[t].pc = "ul_loop"
        /\ ~LoopCond(s1, satellites[p])
        /\ pq' = [pq EXCEPT ![p] = s1.pq]
        /\ linkEst' = Reconcile(linkEst, s1.mst, established[p])
        /\ established' = [established EXCEPT ![p] = s1.mst]
        /\ readyCh' = [readyCh EXCEPT ![p] = Signal(@)]
        /\ mu' = [mu EXCEPT ![p] = FALSE]
        /\ calls' = Return(t)
        /\ UNCHANGED << links, satellite, satellites, position, visited,
                        pos, last, prev >>

\* Two instances of neighbouring nodes, each mounted on its node or not yet
\* mounted and holding up to MaxPeerLinks candidate links; the constellation
\* has moved off the origin.
InitConc ==
    /\ \E ls \in [ConcNodes -> SeqsUpTo(LinkIds, MaxPeerLinks)] :
          links = [p \in Nodes |-> IF p \in ConcNodes THEN ls[p] ELSE << >>]
    /\ \E ms \in SUBSET ConcNodes :
          satellite = [p \in Nodes |-> IF p \in ms THEN p ELSE NoSat]
    /\ \E v \in Positions \ {0} : pos = [n \in Nodes |-> v]
    /\ established = [p \in Nodes |-> << >>]
    /\ satellites = [p \in Nodes |-> {}]
    /\ position = [p \in Nodes |-> 0]
    /\ visited = [p \in Nodes |-> {}]
    /\ pq = [p \in Nodes |-> PQEmpty]
    /\ mu = [p \in Nodes |-> FALSE]
    /\ readyCh = [p \in Nodes |-> 0]
    /\ linkEst = [l \in LinkIds |-> FALSE]
    /\ last = NoCall
    /\ prev = NoPrev
    /\ calls = [t \in Threads |-> Idle(MaxCalls)]

NextConc ==
    \/ \E t \in Threads, p \in ConcNodes : \E sat \in {p, Partner[p]} :
          CallMount(t, p, sat)
    \/ \E t \in Threads : MountCheck(t)
    \/ \E t \in Threads : MountSet(t)
    \/ \E t \in Threads, p \in ConcNodes : CallUpdateLinks(t, p)
    \/ \E t \in Threads : UpdateLinksLock(t)
    \/ \E t \in Threads : UpdateLinksFails(t)
    \/ \E t \in Threads : UpdateLinksHit(t)
    \/ \E t \in Threads : UpdateLinksMiss(t)
    \/ \E t \in Threads : UpdateLinksDequeue(t)
    \/ \E t \in Threads : UpdateLinksPull(t)
    \/ \E t \in Threads : UpdateLinksFinish(t)

SpecConc == InitConc /\ [][NextConc]_vars

(***************************************************************************)
(* Link edits.  An instance mounted on its own node has run a pass off the  *)
(* origin with no candidate link; since then each of the links es was       *)
(* given to AddLink and to ConnectLink, and a cache-hit UpdateLinks has     *)
(* just returned the established set.                                       *)
(***************************************************************************)
InitEdit ==
    \E o \in ConcNodes, v \in Positions \ {0},
       es \in SeqsUpTo(LinkIds, MaxEstablished) :
        /\ links = [p \in Nodes |-> IF p = o THEN es ELSE << >>]
        /\ established = [p \in Nodes |-> IF p = o THEN es ELSE << >>]
        /\ satellite = [p \in Nodes |-> IF p = o THEN o ELSE NoSat]
        /\ satellites = [p \in Nodes |-> {}]
        /\ position = [p \in Nodes |-> IF p = o THEN v ELSE 0]
        /\ pos = [n \in Nodes |-> IF n = o THEN v ELSE 0]
        /\ visited = [p \in Nodes |-> IF p = o THEN {o} ELSE {}]
        /\ pq = [p \in Nodes |-> PQEmpty]
        /\ mu = [p \in Nodes |-> FALSE]
        /\ readyCh = [p \in Nodes |-> 0]
        /\ linkEst = [l \in LinkIds |-> FALSE]
        /\ last = Returned("UpdateLinks", o, "cached", es)
        /\ prev = [inst |-> o, result |-> es, edited |-> FALSE, again |-> FALSE]
        /\ calls = [t \in Threads |-> Idle(MaxCalls)]

NextEdit ==
    \/ \E p \in Nodes, link \in LinkIds \cup {ForeignLink} :
          /\ satellite[p] # NoSat
          /\ Len(established[p]) <= MaxEstablished
          /\ ConnectLink(p, link)
    \/ \E p \in Nodes, link \in LinkIds \cup {ForeignLink} :
          /\ satellite[p] # NoSat
          /\ DisconnectLink(p, link)

SpecEdit == InitEdit /\ [][NextEdit]_vars

(***************************************************************************)
(* One thread alone, running UpdateLinks step by step on an instance        *)
(* mounted on its node; the constellation has moved off the origin          *)
(* together.  The owner holds up to MaxLinks candidate links, a neighbour   *)
(* up to MaxPeerLinks, and ConnectLink has established the neighbour's      *)
(* links on the owner's instance.  The thread is scheduled whenever it can  *)
(* take a step.                                                             *)
(***************************************************************************)
LoopThreads == {"t1"}

InitLoop ==
    /\ \E o \in ConcNodes, v \in Positions \ {0},
          ls \in SeqsUpTo(LinkIds, MaxLinks),
          ql \in SeqsUpTo(LinkIds, MaxPeerLinks) :
            /\ links = [p \in Nodes |-> IF p = o THEN ls
                                        ELSE IF p = Partner[o] THEN ql
                                        ELSE << >>]
            /\ established = [p \in Nodes |-> IF p = o THEN ql ELSE << >>]
            /\ satellite = [p \in Nodes |-> IF p = o THEN o ELSE NoSat]
            /\ pos = [n \in Nodes |-> v]
    /\ satellites = [p \in Nodes |-> {}]
    /\ position = [p \in Nodes |-> 0]
    /\ visited = [p \in Nodes |-> {}]
    /\ pq = [p \in Nodes |-> PQEmpty]
    /\ mu = [p \in Nodes |-> FALSE]
    /\ readyCh = [p \in Nodes |-> 0]
    /\ linkEst = [l \in LinkIds |-> FALSE]
    /\ last = NoCall
    /\ prev = NoPrev
    /\ calls = [t \in Threads |-> Idle(MaxCalls)]

NextLoop ==
    \/ \E t \in LoopThreads, p \in Nodes :
          /\ satellite[p] # NoSat
          /\ CallUpdateLinks(t, p)
    \/ \E t \in LoopThreads : UpdateLinksLock(t)
    \/ \E t \in LoopThreads : UpdateLinksHit(t)
    \/ \E t \in LoopThreads : UpdateLinksMiss(t)
    \/ \E t \in LoopThreads : UpdateLinksDequeue(t)
    \/ \E t \in LoopThreads : UpdateLinksPull(t)
    \/ \E t \in LoopThreads : UpdateLinksFinish(t)

SpecLoop == InitLoop /\ [][NextLoop]_vars /\ WF_vars(NextLoop)

(***************************************************************************)
(* Graph notions for the properties of the tree.                            *)
(***************************************************************************)
Touches(l, S) == Node1(l) \in S \/ Node2(l) \in S

\* The nodes connected to a node of S by links of E.
RECURSIVE ReachFrom(_, _)
ReachFrom(E, S) ==
    LET S2 == S \cup UNION { {Node1(l), Node2(l)} : l \in { x \in E : Touches(x, S) } }
    IN  IF S2 = S THEN S ELSE ReachFrom(E, S2)

RECURSIVE Weight(_)
Weight(T) ==
    IF T = {} THEN 0
    ELSE LET l == CHOOSE x \in T : TRUE IN Distance(l) + Weight(T \ {l})

\* No link of T closes a cycle: its endpoints are not connected without it.
Acyclic(T) == \A l \in T : Node2(l) \notin ReachFrom(T \ {l}, {Node1(l)})

\* The spanning trees of the nodes R, rooted at o, made of links of E.
SpanningTrees(E, R, o) ==
    { T \in SUBSET E : Cardinality(T) = Cardinality(R) - 1 /\ ReachFrom(T, {o}) = R }

\* The candidate links of p that are in range, and what they reach.
InRangeCandidates(p) == { l \in Range(links[p]) : InRange(l) }

Reachable(p) == ReachFrom(InRangeCandidates(p), {satellite[p]})

\* UpdateLinks on p has just returned from a recomputation.
Recomputed(p) ==
    /\ last.op = "UpdateLinks" /\ last.inst = p
    /\ last.outcome = "recomputed" /\ last.result = established[p]

(***************************************************************************)
(* C1: after a recomputing UpdateLinks the established set is a spanning    *)
(* tree of minimum total distance of the nodes the owner reaches over its   *)
(* in-range candidate links; for owner A with candidates A-B (10),          *)
(* A-C (50), B-C (5) it is exactly {A-B, B-C}.                              *)
(***************************************************************************)
ExampleScenario(p) ==
    /\ satellite[p] = "A"
    /\ Range(links[p]) = {"AB", "AC", "BC"}
    /\ Distance("AB") = 10 /\ Distance("AC") = 50 /\ Distance("BC") = 5

C1_MinimumSpanningTree ==
    \A p \in Nodes : Recomputed(p) =>
        LET T == Range(established[p])
            trees == SpanningTrees(InRangeCandidates(p), Reachable(p), satellite[p])
        IN  /\ T \in trees
            /\ \A T2 \in trees : Weight(T) <= Weight(T2)
            /\ ExampleScenario(p) => T = {"AB", "BC"} /\ Weight(T) = 15

(***************************************************************************)
(* C2: after a recomputation the established links, as an undirected graph, *)
(* contain no cycle.                                                        *)
(***************************************************************************)
C2_Acyclic ==
    \A p \in Nodes : Recomputed(p) => Acyclic(Range(established[p]))

(***************************************************************************)
(* C3: after a recomputation every node the owner reaches over in-range     *)
(* candidate links is connected to the owner by established links.          *)
(***************************************************************************)
C3_ConnectsReachable ==
    \A p \in Nodes : Recomputed(p) =>
        Reachable(p) \subseteq ReachFrom(Range(established[p]), {satellite[p]})

(***************************************************************************)
(* C4: when the in-range candidate links form two components and the owner  *)
(* is in one of them, the recomputation returns and no established link     *)
(* joins nodes of the other component.                                      *)
(***************************************************************************)
TwoComponents(p) ==
    LET E == Range(links[p])
        all == SatMap(links[p])
        mine == Reachable(p)
        rest == all \ mine
    IN  /\ E = InRangeCandidates(p)
        /\ satellite[p] \in all
        /\ rest # {}
        /\ \A n \in rest : ReachFrom(E, {n}) = rest

C4_OwnerComponentOnly ==
    \A p \in Nodes : Recomputed(p) /\ TwoComponents(p) =>
        \A l \in Range(established[p]) :
            Node1(l) \in Reachable(p) /\ Node2(l) \in Reachable(p)

(***************************************************************************)
(* C5: after a recomputation no established link is farther than            *)
(* MaxISLDistance, whether it was seeded from the owner's candidates or     *)
(* pulled from a neighbour's link set.                                      *)
(***************************************************************************)
C5_NoOutOfRangeEstablished ==
    \A p \in Nodes : Recomputed(p) =>
        \A l \in Range(established[p]) : Distance(l) <= MaxISLDistance

\* A recomputation that left a tree although the owner holds an
\* out-of-range candidate and a reached neighbour holds an out-of-range
\* link to a node the tree did not reach.
C5_Witness ==
    \E p \in Nodes :
        /\ Recomputed(p)
        /\ established[p] # << >>
        /\ \E l \in Range(links[p]) : ~InRange(l)
        /\ \E n \in visited[p] \ {satellite[p]} : \E l \in Range(links[n]) :
              ~InRange(l) /\ ~BothVisited(l, visited[p])

(***************************************************************************)
(* C6: after a recomputation every established link is one of the           *)
(* instance's own candidate links.                                          *)
(***************************************************************************)
C6_EstablishedSubsetOfCandidates ==
    \A p \in Nodes : Recomputed(p) =>
        Range(established[p]) \subseteq Range(links[p])

\* C6 as amended: after a recomputation every established link is a
\* candidate link of the instance or of the instance of a node the pass
\* reached.
C6_EstablishedFromReached ==
    \A p \in Nodes : Recomputed(p) =>
        Range(established[p]) \subseteq
            Range(links[p]) \cup
            UNION { Range(links[n]) : n \in visited[p] \ {satellite[p]} }

\* A recomputation that established a link of a neighbour's link set.
C6_Witness ==
    \E p \in Nodes :
        /\ Recomputed(p)
        /\ \E l \in Range(established[p]) : l \notin Range(links[p])

(***************************************************************************)
(* C9: a link added by an AddLink that returned before an UpdateLinks on    *)
(* the same mounted instance began is seen by that UpdateLinks: the         *)
(* topology it returns is computed from a candidate set that includes the   *)
(* link.  The reachable universe a pass computes from is left in            *)
(* p.satellites, what it did with each candidate in established, visited    *)
(* and the queue.                                                           *)
(***************************************************************************)
UpdateLinksReturned(p) ==
    /\ last.op = "UpdateLinks"
    /\ last.inst = p
    /\ last.outcome \in {"cached", "recomputed"}

\* The endpoints of l are in the universe the latest pass computed from.
CandidateSeen(p, l) ==
    Node1(l) \in satellites[p] /\ Node2(l) \in satellites[p]

\* An in-range l went through the queue of the latest pass: it is in the
\* tree, or was dropped with both endpoints visited, or is still queued.
CandidateConsidered(p, l) ==
    InRange(l) =>
        \/ l \in Range(established[p])
        \/ BothVisited(l, visited[p])
        \/ \E i \in DOMAIN pq[p] : pq[p][i].item = l

\* C9 as stated, for an instance that has run a pass before: when
\* UpdateLinks has returned a topology, every candidate link of the
\* instance is in the universe that topology was computed from.
C9_AddedLinkSeen ==
    \A p \in Nodes : (UpdateLinksReturned(p) /\ visited[p] # {}) =>
        \A l \in Range(links[p]) : CandidateSeen(p, l)

\* C9 as amended: when UpdateLinks has returned from a recomputation, every
\* candidate link of the instance is in the universe the topology was
\* computed from and, if in range, went through the queue of that pass.
C9_AddedLinkSeenOnRecompute ==
    \A p \in Nodes : Recomputed(p) =>
        \A l \in Range(links[p]) :
            CandidateSeen(p, l) /\ CandidateConsidered(p, l)

\* A recomputation that returned a tree holding a candidate link of the
\* instance, on an instance that holds a second candidate link.
C9_Witness ==
    \E p \in Nodes :
        /\ Recomputed(p)
        /\ Len(links[p]) > 1
        /\ \E l \in Range(links[p]) : l \in Range(established[p])

(***************************************************************************)
(* C10: two UpdateLinks calls on a mounted instance with no change of the   *)
(* owner's position in between return identical established sets, and the  *)
(* second call does not recompute: it leaves the established set, the       *)
(* cached position, the visited set and every link's established flag as    *)
(* they were.                                                               *)
(***************************************************************************)
\* What the claim says of the second call.
SecondCallCached(p) ==
    /\ last'.outcome = "cached"
    /\ last'.result = prev.result
    /\ UNCHANGED << established, position, visited, linkEst >>

\* C10 as stated: an UpdateLinks on p that follows a returned UpdateLinks on
\* p, the owner not having moved since, returns what that call returned and
\* changes nothing.
C10_CachedCallIdentical ==
    [][ \A p \in Nodes : (UpdateLinks(p) /\ prev.inst = p) =>
            SecondCallCached(p) ]_vars

\* C10 as amended: the same, when moreover neither ConnectLink nor
\* DisconnectLink was called on p between the two calls.
C10_CachedCallIdenticalUnedited ==
    [][ \A p \in Nodes : (UpdateLinks(p) /\ prev.inst = p /\ ~prev.edited) =>
            SecondCallCached(p) ]_vars

\* The second of two such calls has returned a non-empty topology that an
\* earlier recomputation had built, a candidate link having been added
\* since.
C10_Witness ==
    \E p \in Nodes :
        /\ last = Returned("UpdateLinks", p, "cached", established[p])
        /\ prev.inst = p /\ prev.again
        /\ established[p] # << >>
        /\ visited[p] # {}
        /\ \E l \in Range(links[p]) : ~CandidateSeen(p, l)

(***************************************************************************)
(* C7: once a thread has acquired an instance's lock inside an operation,   *)
(* the operation completes without waiting on anything else; UpdateLinks    *)
(* runs to completion under every interleaving of concurrent UpdateLinks    *)
(* calls on the instances of neighbouring nodes: no reachable state in      *)
(* which the calls wait on each other forever.                              *)
(***************************************************************************)
\* The call of t holds its own lock and waits, in Links(), for the lock
\* that the call of u holds.
WaitsFor(t, u) ==
    /\ calls[t].pc = "ul_links"
    /\ Holds(u, LinksOf(t))

\* C7: no two UpdateLinks calls wait for each other's lock.
C7_NoMutualWait ==
    \A t, u \in Threads : ~(t # u /\ WaitsFor(t, u) /\ WaitsFor(u, t))

(***************************************************************************)
(* C8: every read and write of protocol state by an operation happens       *)
(* while the instance's lock is held, so concurrent calls on one instance   *)
(* never interleave inside an operation.                                    *)
(***************************************************************************)
\* The next step of t reads or writes a field of the instance p.
Accessing(t, p) ==
    /\ calls[t].inst = p
    /\ calls[t].pc \in {"mount_check", "mount_set",
                        "ul_locked", "ul_loop", "ul_links"}

\* t has read state of p in its call and has a step of the call left.
Inside(t, p) ==
    /\ calls[t].inst = p
    /\ calls[t].pc \in {"mount_set", "ul_loop", "ul_links"}

\* C8: a thread about to read or write state of an instance holds its lock,
\* and no two threads are inside operations on one instance.
C8_AccessUnderLock ==
    /\ \A t \in Threads, p \in Nodes : Accessing(t, p) => Holds(t, p)
    /\ \A t, u \in Threads, p \in Nodes :
          ~(t # u /\ Inside(t, p) /\ Inside(u, p))

(***************************************************************************)
(* C11: after a recomputation pass of UpdateLinks every link of the new     *)
(* tree has its established flag true, and every link that was in the       *)
(* established set before the pass, from the previous pass or from          *)
(* ConnectLink, and is not in the new tree has its established flag false.  *)
(***************************************************************************)
C11_FlagsFollowTree ==
    [][ \A p \in Nodes :
          (UpdateLinksRecompute(p) /\ last'.outcome = "recomputed") =>
              /\ \A l \in Range(established'[p]) : linkEst'[l]
              /\ \A l \in Range(established[p]) \ Range(established'[p]) :
                    ~linkEst'[l] ]_vars

\* A recomputation returned a tree and dropped a link of the established
\* set it replaced.
C11_Witness ==
    \E p \in Nodes :
        /\ Recomputed(p)
        /\ established[p] # << >>
        /\ last.dropped # {}
        /\ \A l \in last.dropped : ~linkEst[l]

(***************************************************************************)
(* C12: for every established set and every link L of the protocol's own    *)
(* link type, ConnectLink(L) immediately followed by DisconnectLink(L)      *)
(* leaves the established set equal, as a collection of links regardless of *)
(* order, to the set before ConnectLink, also when L was established        *)
(* before the ConnectLink.                                                  *)
(***************************************************************************)
Count(es, l) == Cardinality({ i \in DOMAIN es : es[i] = l })

\* The same links, each as many times, in any order.
SameLinks(a, b) == \A l \in LinkIds : Count(a, l) = Count(b, l)

\* prev.result is the established set UpdateLinks returned before the edits:
\* a DisconnectLink(L) taken where ConnectLink(L) has just extended that set
\* gives back the links of that set.
C12_ConnectThenDisconnect ==
    [][ \A p \in Nodes, L \in LinkIds :
          ( /\ prev.inst = p
            /\ established[p] = Append(prev.result, L)
            /\ DisconnectLink(p, L) ) =>
                SameLinks(established'[p], prev.result) ]_vars

\* ConnectLink(L) and DisconnectLink(L) on a set that held L and another
\* link after it: the links are those of before, in another order.
C12_Witness ==
    \E p \in Nodes :
        /\ prev.inst = p /\ prev.edited
        /\ last = NoCall
        /\ Len(prev.result) > 1
        /\ established[p] # prev.result
        /\ SameLinks(established[p], prev.result)

(***************************************************************************)
(* C16: DisconnectLink(L) removes at most one entry of the established set, *)
(* the first one identical to L, keeps the relative order of the remaining  *)
(* entries, and leaves the set unchanged when L is not in it; it never      *)
(* changes the candidate links or the cached position.                      *)
(***************************************************************************)
\* b is a without its entry at index i.
Without(a, b, i) ==
    /\ Len(b) = Len(a) - 1
    /\ \A j \in DOMAIN b : b[j] = IF j < i THEN a[j] ELSE a[j + 1]

C16_DisconnectRemovesFirst ==
    [][ \A p \in Nodes, L \in LinkIds \cup {ForeignLink} :
          DisconnectLink(p, L) =>
              /\ L \notin Range(established[p]) =>
                    established'[p] = established[p]
              /\ L \in Range(established[p]) =>
                    \E i \in DOMAIN established[p] :
                        /\ established[p][i] = L
                        /\ \A j \in 1..(i - 1) : established[p][j] # L
                        /\ Without(established[p], established'[p], i)
              /\ UNCHANGED << links, position >> ]_vars

\* DisconnectLink has taken the first of two entries identical to L from a
\* set that held another link between them, on an instance with candidates.
C16_Witness ==
    \E p \in Nodes, L \in LinkIds :
        /\ prev.inst = p /\ prev.edited
        /\ last = NoCall
        /\ Len(prev.result) > 1
        /\ prev.result[1] = L /\ prev.result[2] # L
        /\ established[p] = Tail(prev.result) \o << L >>
        /\ links[p] # << >>

(***************************************************************************)
(* C13: UpdateLinks on an instance that was never mounted returns the       *)
(* not-mounted error and changes nothing: candidate links, established      *)
(* links, cached position, visited set, queue, readiness signal and link    *)
(* flags are as before; the instance stays unlocked and unmounted, so that  *)
(* a later Mount followed by UpdateLinks finds it as it was.                *)
(***************************************************************************)
C13_NotMountedNoChange ==
    [][ \A p \in Nodes : (UpdateLinks(p) /\ satellite[p] = NoSat) =>
            /\ last' = Returned("UpdateLinks", p, "not mounted", << >>)
            /\ UNCHANGED << links, established, position, visited, pq,
                            readyCh, linkEst, satellites, satellite, mu >>
      ]_vars

\* The error was returned by an instance that holds candidate links and
\* established links.
C13_Witness ==
    \E p \in Nodes :
        /\ last = Returned("UpdateLinks", p, "not mounted", << >>)
        /\ satellite[p] = NoSat /\ ~mu[p]
        /\ links[p] # << >>
        /\ established[p] # << >>

(***************************************************************************)
(* C14: the readiness signal holds at most one pending notification in      *)
(* every reachable state (the send after a recomputation never blocks and   *)
(* changes nothing when one is pending); exactly one is pending when a      *)
(* recomputing UpdateLinks returns and none when a cache-hit UpdateLinks    *)
(* returns.                                                                 *)
(***************************************************************************)
C14_AtMostOnePending ==
    \A p \in Nodes :
        /\ readyCh[p] \in {0, 1}
        /\ Recomputed(p) => readyCh[p] = 1
        /\ (last.inst = p /\ last.outcome = "cached") => readyCh[p] = 0

\* A cache-hit UpdateLinks has returned on an instance that ran a pass
\* before: nothing is pending.
C14_Witness ==
    \E p \in Nodes :
        /\ last = Returned("UpdateLinks", p, "cached", established[p])
        /\ visited[p] # {}
        /\ readyCh[p] = 0

(***************************************************************************)
(* C15: the first Mount binds the instance to its node and every later      *)
(* Mount is a no-op: after any sequence of Mount calls, concurrent ones     *)
(* included, the mounted node is the node of the first Mount, and Mount     *)
(* changes no other protocol state.                                         *)
(***************************************************************************)
\* C15: once an instance is mounted its node never changes, and a step of
\* Mount changes nothing but the mounted node.
C15_FirstMountWins ==
    [][ /\ \A p \in Nodes :
              satellite[p] # NoSat => satellite'[p] = satellite[p]
        /\ \A t \in Threads : (MountCheck(t) \/ MountSet(t)) =>
              UNCHANGED << links, established, satellites, position,
                           visited, pq, mu, readyCh, linkEst >> ]_vars

(***************************************************************************)
(* C17: a link enqueued more than once during a recomputation (given twice  *)
(* to AddLink, or held by the owner and by a neighbour) is at most once in  *)
(* the established set after that recomputation.                            *)
(***************************************************************************)
C17_NoDuplicateEstablished ==
    \A p \in Nodes : Recomputed(p) =>
        \A l \in LinkIds : Count(established[p], l) <= 1

(***************************************************************************)
(* C18: every link the greedy loop appends to the tree has, when it is      *)
(* dequeued, exactly one endpoint visited and one not visited; a link with  *)
(* no visited endpoint is never appended.                                   *)
(***************************************************************************)
\* The step that appends calls[t].link: the visited set is the one the link
\* was dequeued under, the lock being held in between.
C18_OneEndpointVisited ==
    [][ \A t \in Threads : UpdateLinksPull(t) =>
            (Node1(calls[t].link) \in visited[calls[t].inst])
                # (Node2(calls[t].link) \in visited[calls[t].inst]) ]_vars

(***************************************************************************)
(* C20: UpdateLinks takes the cache-hit path only if an earlier UpdateLinks *)
(* on the instance completed a recomputation at the owner's current         *)
(* position; the first UpdateLinks after Mount recomputes, wherever the     *)
(* owner is, the origin included.                                           *)
(***************************************************************************)
\* A pass leaves the owner in p.visited: a cache hit is returned only by an
\* instance that ran a pass, at the position it cached.
C20_HitOnlyAfterRecompute ==
    \A p \in Nodes : (last.inst = p /\ last.outcome = "cached") =>
        /\ visited[p] # {}
        /\ position[p] = pos[satellite[p]]

(***************************************************************************)
(* C19: for finite candidate and neighbour link sets, the greedy loop of a  *)
(* recomputing UpdateLinks run with no other thread active terminates, and  *)
(* when it ends the tree has at most (number of distinct endpoints of the   *)
(* owner's candidate links - 1) links; with no candidate link the loop      *)
(* body never runs and the established set becomes empty.                   *)
(***************************************************************************)
Endpoints(ls) == UNION { {Node1(l), Node2(l)} : l \in Range(ls) }

\* The most links a tree over the endpoints of ls has.
TreeTarget(ls) ==
    IF Endpoints(ls) = {} THEN 0 ELSE Cardinality(Endpoints(ls)) - 1

\* The call of t on p is in the loop.
InLoop(t, p) == calls[t].inst = p /\ calls[t].pc \in {"ul_loop", "ul_links"}

\* A pass of p has ended and no call is in progress.
PassEnded(p) ==
    /\ satellite[p] # NoSat
    /\ position[p] = pos[satellite[p]]
    /\ \A t \in LoopThreads : calls[t].pc = "idle"

C19_LoopTerminates ==
    /\ [](\A t \in LoopThreads, p \in Nodes :
            /\ InLoop(t, p) => Len(calls[t].mst) <= TreeTarget(links[p])
            /\ (InLoop(t, p) /\ links[p] = << >>) => calls[t].pc # "ul_links"
            /\ PassEnded(p) => Len(established[p]) <= TreeTarget(links[p])
            /\ (PassEnded(p) /\ links[p] = << >>) => established[p] = << >>)
    /\ \A t \in LoopThreads :
            (calls[t].pc = "ul_loop") ~> (calls[t].pc = "idle")

\* A pass has ended with a tree of as many links as the target allows, two
\* at least, one of them pulled from the neighbour's link set.
C19_Witness ==
    \E p \in Nodes :
        /\ PassEnded(p)
        /\ Len(established[p]) = TreeTarget(links[p])
        /\ Len(established[p]) > 1
        /\ \E l \in Range(established[p]) : l \notin Range(links[p])

====
